---- MODULE Spec2Model ----
(***************************************************************************)
(* Model of mem::BlockAllocator (include/block_allocator.hpp,              *)
(* src/block_allocator.cpp): a pool of fixed-stride slots carved from one   *)
(* aligned region, an intrusive free-list threaded through the free slots,  *)
(* an occupancy table that guards deallocate, and one mutex.                *)
(*                                                                         *)
(* Addresses and std::size_t values are naturals below 2^SizeBits; the      *)
(* arithmetic of the code is taken modulo 2^SizeBits where the code's       *)
(* arithmetic is unsigned.  nullptr is the address 0.                       *)
(***************************************************************************)
EXTENDS Integers, Sequences, FiniteSets, TLC

\* ------------------------------------------------------------------ bounds
\* Width of std::size_t and of an address in the model.
SizeBits == 12
\* Largest block_count a pool that is operated on is built with.
MaxBlocks == 3
\* Threads of the stress scenarios, and iterations of each thread's loop.
NumThreads == 2
Iters == 3

\* ------------------------------------------------------ platform constants
\* sizeof(FreeNode): one pointer.
SizeofFreeNode == 8
\* alignof(void *).
AlignofVoidPtr == 8
\* std::uint8_t arithmetic of the occupancy flags is modulo 256.
Uint8Mod == 256
\* The byte the test threads fill an allocated block with (memset 0xCD).
PayloadWord == 205

nullptr == 0

SizeMod == 2 ^ SizeBits
\* static_cast<std::size_t>(-1)
SizeMax == SizeMod - 1
\* std::vector<std::uint8_t>::max_size(): PTRDIFF_MAX elements.
VectorMaxSize == (SizeMod \div 2) - 1

\* ------------------------------------------------------- size_t arithmetic
\* Bitwise AND of two naturals.
RECURSIVE BitAnd(_, _)
BitAnd(a, b) ==
  IF a = 0 \/ b = 0 THEN 0
  ELSE (IF a % 2 = 1 /\ b % 2 = 1 THEN 1 ELSE 0) + 2 * BitAnd(a \div 2, b \div 2)

\* ~x on std::size_t.
BitNot(x) == SizeMax - x

\* x - 1 on std::size_t (wraps at 0).
Dec(x) == (x + SizeMod - 1) % SizeMod

\* x + 1 on std::size_t (wraps at SizeMax).
Inc(x) == (x + 1) % SizeMod

Max(a, b) == IF a >= b THEN a ELSE b

\* is_power_of_two: x && ((x & (x - 1)) == 0)
is_power_of_two(x) == x # 0 /\ BitAnd(x, Dec(x)) = 0

\* A round_up that forgets the mask: returns value unrounded.
round_up_unrounded(value, align) == value % SizeMod

\* round_up: mask = align - 1; (value + mask) & ~mask, on std::size_t.
round_up(value, align) ==
  LET mask == Dec(align)
  IN  BitAnd((value + mask) % SizeMod, BitNot(mask))

\* -------------------------------------------------------------- the pool
\* Address of slot i: region_ + i * stride_.
SlotAddr(region, stride, i) == region + i * stride

\* The value of a pool object that does not exist (construction threw).
NoPool == [block_count_ |-> 0]

\* posix_memalign(&p, alignment, size): ENOMEM (nullptr), or a block of size
\* bytes whose address is a multiple of alignment.
MemalignResults(alignment, size) ==
  {nullptr} \cup {a \in {alignment * k : k \in {1, 3}} : a + size < SizeMod}

\* What operator new makes of the n bytes of the occupancy table: a vector of
\* no elements allocates nothing; a request of a quarter of the range of
\* size_t or more exceeds the address space and always fails; any other may
\* succeed or fail.
TableResults(n) ==
  IF n = 0 THEN {"ok"}
  ELSE IF n >= SizeMod \div 4 THEN {"bad_alloc"}
  ELSE {"ok", "bad_alloc"}

\* allocate_aligned: the pointer posix_memalign stored, nullptr when rc != 0.
allocate_aligned(alignment, size, p) == p

\* A constructor loop that starts at slot 1 and so never links slot 0.
RECURSIVE link_slots_skip_first(_, _, _, _, _, _)
link_slots_skip_first(i, block_count, region, stride, free_list, next) ==
  IF i >= block_count THEN [free_list_ |-> free_list, next_ |-> next]
  ELSE LET node == SlotAddr(region, stride, IF i = 0 THEN 1 ELSE i)
       IN  link_slots_skip_first(i + 1, block_count, region, stride, node,
             [a \in (DOMAIN next) \cup {node} |->
                IF a = node THEN free_list ELSE next[a]])

\* A constructor loop that links the slots from the last index down, which
\* leaves slot 0 at the head.
RECURSIVE link_slots_descending(_, _, _, _, _, _)
link_slots_descending(i, block_count, region, stride, free_list, next) ==
  IF i >= block_count THEN [free_list_ |-> free_list, next_ |-> next]
  ELSE LET node == SlotAddr(region, stride, block_count - 1 - i)
       IN  link_slots_descending(i + 1, block_count, region, stride, node,
             [a \in (DOMAIN next) \cup {node} |->
                IF a = node THEN free_list ELSE next[a]])

\* The constructor's loop from index i on: node = region_ + i * stride_;
\* node->next = free_list_; free_list_ = node.  next maps the address of a
\* slot to the FreeNode::next word stored in its first bytes.
RECURSIVE link_slots(_, _, _, _, _, _)
link_slots(i, block_count, region, stride, free_list, next) ==
  IF i >= block_count THEN [free_list_ |-> free_list, next_ |-> next]
  ELSE LET node == SlotAddr(region, stride, i)
       IN  link_slots(i + 1, block_count, region, stride, node,
             [a \in (DOMAIN next) \cup {node} |->
                IF a = node THEN free_list ELSE next[a]])

\* BlockAllocator::BlockAllocator(block_size, block_count, alignment), with
\* table the outcome of the allocation of the occupancy table and p the
\* outcome of posix_memalign.  exc is the exception that leaves the
\* constructor, "none" when it returns.
BlockAllocator(block_size, block_count, alignment, table, p) ==
  LET min_stride == Max(block_size, SizeofFreeNode)
      stride     == round_up(min_stride, alignment)
      total_size == (stride * block_count) % SizeMod
      region     == allocate_aligned(alignment, total_size, p)
      linked     == link_slots(0, block_count, region, stride, nullptr,
                               [a \in {} |-> nullptr])
  IN  \* The member initialiser occupancy_(block_count, 0) runs before the
      \* body: a count above max_size() throws length_error, a table that
      \* cannot be allocated throws bad_alloc.
      IF block_count > VectorMaxSize
        THEN [exc |-> "length_error", pool |-> NoPool]
      ELSE IF table = "bad_alloc"
        THEN [exc |-> "bad_alloc", pool |-> NoPool]
      ELSE IF block_size = 0 \/ block_count = 0
        THEN [exc |-> "invalid_argument", pool |-> NoPool]
      ELSE IF ~is_power_of_two(alignment) \/ alignment < AlignofVoidPtr
        THEN [exc |-> "invalid_argument", pool |-> NoPool]
      ELSE IF stride > SizeMax \div block_count
        THEN [exc |-> "invalid_argument", pool |-> NoPool]
      ELSE IF region = nullptr
        THEN [exc |-> "bad_alloc", pool |-> NoPool]
      ELSE [exc  |-> "none",
            pool |-> [block_size_  |-> block_size,
                      block_count_ |-> block_count,
                      alignment_   |-> alignment,
                      stride_      |-> stride,
                      region_      |-> region,
                      free_list_   |-> linked.free_list_,
                      free_count_  |-> block_count,
                      occupancy_   |-> [i \in 0..(block_count - 1) |-> 0],
                      next_        |-> linked.next_]]

\* BlockAllocator::~BlockAllocator: std::free(region_), region_ = nullptr,
\* free_list_ = nullptr, free_count_ = 0, occupancy_.clear().  The words of
\* the region are gone with it.
BlockAllocator_dtor(a) ==
  [a EXCEPT !.region_ = nullptr,
            !.free_list_ = nullptr,
            !.free_count_ = 0,
            !.occupancy_ = [i \in {} |-> 0],
            !.next_ = [n \in {} |-> nullptr]]

\* Indices of the slots of a pool.
Slots(a) == 0..(a.block_count_ - 1)

\* stride_ * block_count_ on std::size_t.
capacity_bytes(a) == (a.stride_ * a.block_count_) % SizeMod

\* is_from_region_unlocked: inside the region and on a stride boundary.
is_from_region_unlocked(a, p) ==
  /\ p >= a.region_
  /\ p < a.region_ + capacity_bytes(a)
  /\ (p - a.region_) % a.stride_ = 0

\* index_from_ptr_unlocked: the slot index of p, or runtime_error.
index_from_ptr_unlocked(a, p) ==
  IF p < a.region_ \/ p >= a.region_ + capacity_bytes(a)
    THEN [exc |-> "runtime_error", idx |-> 0]
  ELSE IF (p - a.region_) % a.stride_ # 0
    THEN [exc |-> "runtime_error", idx |-> 0]
  ELSE [exc |-> "none", idx |-> (p - a.region_) \div a.stride_]

\* An allocate that pops the head but leaves free_count_ alone.
allocate_no_count(a) ==
  IF a.free_list_ = nullptr
    THEN [exc |-> "bad_alloc", ret |-> nullptr, pool |-> a]
  ELSE LET node == a.free_list_
           idx  == (node - a.region_) \div a.stride_
       IN  [exc |-> "none", ret |-> node,
            pool |-> [a EXCEPT !.free_list_ = a.next_[node],
                               !.occupancy_ = [@ EXCEPT ![idx] = 1]]]

\* An allocate that refuses while one block is still free.
allocate_early_oom(a) ==
  IF a.free_list_ = nullptr \/ a.free_count_ = 1
    THEN [exc |-> "bad_alloc", ret |-> nullptr, pool |-> a]
  ELSE LET node == a.free_list_
           idx  == (node - a.region_) \div a.stride_
       IN  [exc |-> "none", ret |-> node,
            pool |-> [a EXCEPT !.free_list_ = a.next_[node],
                               !.free_count_ = Dec(@),
                               !.occupancy_ = [@ EXCEPT ![idx] = 1]]]

\* An allocate that decrements free_count_ before it tests the free-list.
allocate_count_first(a) ==
  IF a.free_list_ = nullptr
    THEN [exc |-> "bad_alloc", ret |-> nullptr,
          pool |-> [a EXCEPT !.free_count_ = Dec(@)]]
  ELSE LET node == a.free_list_
           idx  == (node - a.region_) \div a.stride_
       IN  [exc |-> "none", ret |-> node,
            pool |-> [a EXCEPT !.free_list_ = a.next_[node],
                               !.free_count_ = Dec(@),
                               !.occupancy_ = [@ EXCEPT ![idx] = 1]]]

\* An allocate that pops the head and counts it but leaves the flag at 0.
allocate_no_flag(a) ==
  IF a.free_list_ = nullptr
    THEN [exc |-> "bad_alloc", ret |-> nullptr, pool |-> a]
  ELSE LET node == a.free_list_
       IN  [exc |-> "none", ret |-> node,
            pool |-> [a EXCEPT !.free_list_ = a.next_[node],
                               !.free_count_ = Dec(@)]]

\* An allocate that hands out the head but leaves it at the head of the list.
allocate_no_pop(a) ==
  IF a.free_list_ = nullptr
    THEN [exc |-> "bad_alloc", ret |-> nullptr, pool |-> a]
  ELSE LET node == a.free_list_
           idx  == (node - a.region_) \div a.stride_
       IN  [exc |-> "none", ret |-> node,
            pool |-> [a EXCEPT !.free_count_ = Dec(@),
                               !.occupancy_ = [@ EXCEPT ![idx] = 1]]]

\* An allocate that unlinks the node behind the head when there is one.
allocate_behind_head(a) ==
  IF a.free_list_ = nullptr
    THEN [exc |-> "bad_alloc", ret |-> nullptr, pool |-> a]
  ELSE LET head == a.free_list_
           node == IF a.next_[head] = nullptr THEN head ELSE a.next_[head]
           idx  == (node - a.region_) \div a.stride_
       IN  [exc |-> "none", ret |-> node,
            pool |-> [a EXCEPT !.free_list_ = IF node = head THEN a.next_[head] ELSE head,
                               !.next_ = IF node = head THEN @
                                         ELSE [@ EXCEPT ![head] = a.next_[node]],
                               !.free_count_ = Dec(@),
                               !.occupancy_ = [@ EXCEPT ![idx] = 1]]]

\* BlockAllocator::allocate, the part under the lock: throw bad_alloc on an
\* empty free-list, else pop the head, --free_count_, mark the slot.
allocate(a) ==
  IF a.free_list_ = nullptr
    THEN [exc |-> "bad_alloc", ret |-> nullptr, pool |-> a]
  ELSE LET node == a.free_list_
           idx  == (node - a.region_) \div a.stride_
       IN  [exc |-> "none", ret |-> node,
            pool |-> [a EXCEPT !.free_list_ = a.next_[node],
                               !.free_count_ = Dec(@),
                               !.occupancy_ = [@ EXCEPT ![idx] = 1]]]

\* allocate on a pool whose stride_ is 0 and whose free-list is not empty:
\* (node - region_) / stride_ divides by zero, which is undefined.  q is what
\* the build makes of it: "trap" (the division instruction raises SIGFPE,
\* after the pop and the decrement), "trap_before_count" (the compiler moved
\* --free_count_ behind the division: SIGFPE after the pop alone), or "zero"
\* (the instruction yields 0).
ZeroDivisionOutcomes == {"trap", "trap_before_count", "zero"}

allocate_zero_stride(a, q) ==
  LET node    == a.free_list_
      popped  == [a EXCEPT !.free_list_ = a.next_[node]]
      counted == [popped EXCEPT !.free_count_ = Dec(@)]
  IN  IF q = "trap_before_count"
        THEN [exc |-> "SIGFPE", ret |-> nullptr, pool |-> popped]
      ELSE IF q = "trap"
        THEN [exc |-> "SIGFPE", ret |-> nullptr, pool |-> counted]
      ELSE [exc |-> "none", ret |-> node,
            pool |-> [counted EXCEPT !.occupancy_ = [@ EXCEPT ![0] = 1]]]

\* A deallocate without the occupancy test.
deallocate_no_occupancy_check(a, p) ==
  IF p = nullptr THEN [exc |-> "none", what |-> "null", pool |-> a]
  ELSE IF ~is_from_region_unlocked(a, p)
    THEN [exc |-> "runtime_error", what |-> "foreign", pool |-> a]
  ELSE LET idx == index_from_ptr_unlocked(a, p).idx
       IN  [exc |-> "none", what |-> "released",
            pool |-> [a EXCEPT !.next_ = [@ EXCEPT ![p] = a.free_list_],
                               !.free_list_ = p,
                               !.occupancy_ = [@ EXCEPT ![idx] = (@ + Uint8Mod - 1) % Uint8Mod],
                               !.free_count_ = Inc(@)]]

\* A deallocate whose region test forgets the stride boundary.
deallocate_no_stride_check(a, p) ==
  IF p = nullptr THEN [exc |-> "none", what |-> "null", pool |-> a]
  ELSE IF ~(p >= a.region_ /\ p < a.region_ + capacity_bytes(a))
    THEN [exc |-> "runtime_error", what |-> "foreign", pool |-> a]
  ELSE LET idx == (p - a.region_) \div a.stride_
           node == SlotAddr(a.region_, a.stride_, idx)
       IN  IF a.occupancy_[idx] = 0
             THEN [exc |-> "runtime_error", what |-> "double_free", pool |-> a]
           ELSE [exc |-> "none", what |-> "released",
                 pool |-> [a EXCEPT !.next_ = [@ EXCEPT ![node] = a.free_list_],
                                    !.free_list_ = node,
                                    !.occupancy_ = [@ EXCEPT ![idx] = (@ + Uint8Mod - 1) % Uint8Mod],
                                    !.free_count_ = Inc(@)]]

\* A deallocate that pushes the node before it tests the occupancy flag.
deallocate_push_first(a, p) ==
  IF p = nullptr THEN [exc |-> "none", what |-> "null", pool |-> a]
  ELSE IF ~is_from_region_unlocked(a, p)
    THEN [exc |-> "runtime_error", what |-> "foreign", pool |-> a]
  ELSE LET idx    == index_from_ptr_unlocked(a, p).idx
           pushed == [a EXCEPT !.next_ = [@ EXCEPT ![p] = a.free_list_],
                               !.free_list_ = p]
       IN  IF a.occupancy_[idx] = 0
             THEN [exc |-> "runtime_error", what |-> "double_free", pool |-> pushed]
           ELSE [exc |-> "none", what |-> "released",
                 pool |-> [pushed EXCEPT
                             !.occupancy_ = [@ EXCEPT ![idx] = (@ + Uint8Mod - 1) % Uint8Mod],
                             !.free_count_ = Inc(@)]]

\* A deallocate that clears the flag and counts the block but never links it.
deallocate_no_push(a, p) ==
  IF p = nullptr THEN [exc |-> "none", what |-> "null", pool |-> a]
  ELSE IF ~is_from_region_unlocked(a, p)
    THEN [exc |-> "runtime_error", what |-> "foreign", pool |-> a]
  ELSE LET idx == index_from_ptr_unlocked(a, p).idx
       IN  IF a.occupancy_[idx] = 0
             THEN [exc |-> "runtime_error", what |-> "double_free", pool |-> a]
           ELSE [exc |-> "none", what |-> "released",
                 pool |-> [a EXCEPT !.occupancy_ = [@ EXCEPT ![idx] = (@ + Uint8Mod - 1) % Uint8Mod],
                                    !.free_count_ = Inc(@)]]

\* A deallocate without the early return for nullptr: the null address goes
\* through the region test like any other.
deallocate_no_null_return(a, p) ==
  IF ~is_from_region_unlocked(a, p)
    THEN [exc |-> "runtime_error", what |-> "foreign", pool |-> a]
  ELSE LET idx == index_from_ptr_unlocked(a, p).idx
       IN  IF a.occupancy_[idx] = 0
             THEN [exc |-> "runtime_error", what |-> "double_free", pool |-> a]
           ELSE [exc |-> "none", what |-> "released",
                 pool |-> [a EXCEPT !.next_ = [@ EXCEPT ![p] = a.free_list_],
                                    !.free_list_ = p,
                                    !.occupancy_ = [@ EXCEPT ![idx] = (@ + Uint8Mod - 1) % Uint8Mod],
                                    !.free_count_ = Inc(@)]]

\* A deallocate that pushes and counts the block but leaves its flag at 1.
deallocate_flag_kept(a, p) ==
  IF p = nullptr THEN [exc |-> "none", what |-> "null", pool |-> a]
  ELSE IF ~is_from_region_unlocked(a, p)
    THEN [exc |-> "runtime_error", what |-> "foreign", pool |-> a]
  ELSE LET idx == index_from_ptr_unlocked(a, p).idx
       IN  IF a.occupancy_[idx] = 0
             THEN [exc |-> "runtime_error", what |-> "double_free", pool |-> a]
           ELSE [exc |-> "none", what |-> "released",
                 pool |-> [a EXCEPT !.next_ = [@ EXCEPT ![p] = a.free_list_],
                                    !.free_list_ = p,
                                    !.free_count_ = Inc(@)]]

\* BlockAllocator::deallocate(p): nullptr returns at once (no lock); a pointer
\* that is not a slot start of the region, or whose slot is free, throws
\* runtime_error; else node->next = free_list_, free_list_ = node,
\* --occupancy_[idx], ++free_count_.
deallocate(a, p) ==
  IF p = nullptr THEN [exc |-> "none", what |-> "null", pool |-> a]
  ELSE IF ~is_from_region_unlocked(a, p)
    THEN [exc |-> "runtime_error", what |-> "foreign", pool |-> a]
  ELSE LET r == index_from_ptr_unlocked(a, p)
       IN  IF r.exc # "none"
             THEN [exc |-> r.exc, what |-> "foreign", pool |-> a]
           ELSE IF a.occupancy_[r.idx] = 0
             THEN [exc |-> "runtime_error", what |-> "double_free", pool |-> a]
           ELSE [exc |-> "none", what |-> "released",
                 pool |-> [a EXCEPT !.next_ = [@ EXCEPT ![p] = a.free_list_],
                                    !.free_list_ = p,
                                    !.occupancy_ = [@ EXCEPT ![r.idx] = (@ + Uint8Mod - 1) % Uint8Mod],
                                    !.free_count_ = Inc(@)]]

\* BlockAllocator::free_blocks: free_count_ read under the lock.
free_blocks(a) == a.free_count_

\* ------------------------------------------------------------------ state
VARIABLES
  args,     \* <<block_size, block_count, alignment>> given to the constructor
  status,   \* "unconstructed", or how the constructor ended
  pool,     \* the BlockAllocator object
  mtx,      \* mtx_: 0 when free, else the thread that holds it
  live,     \* addresses handed out by allocate() and not yet released
  last,     \* the last call of the single caller and how it ended
  pre,      \* the pool, and the blocks handed out, when that call began
  prev,     \* what the call before it was: "released" (a deallocate that
            \* released a block), "returned" (an allocate that returned the
            \* pointer this deallocate was given) or "other"
  fresh,    \* allocate() calls made while no deallocate was ever called, or -1
  pc,       \* position of each stress thread
  held,     \* the pointer p of each stress thread
  iter,     \* the loop counter i of each stress thread
  ooms      \* blocks handed out when the thread last caught bad_alloc, or -1

vars == <<args, status, pool, mtx, live, last, pre, prev, fresh, pc, held, iter, ooms>>

Threads == 1..NumThreads

\* Configurations <<block_size, alignment>> of the pools that are operated on:
\* 24/64 (the alignment test: a block smaller than the alignment) and 24/8 (a
\* stride of three alignments).
PoolConfigs == {<<24, 64>>, <<24, 8>>}

\* The pools the constructor returns for those configurations when the
\* occupancy table is allocated and posix_memalign returns the lowest address
\* it can.
ConstructedPools(configs, counts) ==
  LET built == {BlockAllocator(c[1], n, c[2], "ok", c[2]) : <<c, n>> \in configs \X counts}
  IN  {r.pool : r \in {b \in built : b.exc = "none"}}

NoCall == [op |-> "none", arg |-> nullptr, exc |-> "none", ret |-> nullptr, what |-> "none"]

\* Pointers a caller may pass to deallocate: nullptr, every slot start, an
\* address inside every slot (pointer-aligned, off the stride boundary), the
\* byte before the region, the address one past its end, and a far address
\* (a stack variable).
PtrInputs(a) ==
  LET end == a.region_ + capacity_bytes(a)
  IN  {nullptr, a.region_ - 1, end, SizeMax - 7}
      \cup {SlotAddr(a.region_, a.stride_, i) + d : i \in Slots(a), d \in {0, 8}}

\* The thread of the single caller, as a holder of mtx_.
Caller == CHOOSE t \in Threads : TRUE

ThreadsIdle ==
  /\ mtx = 0
  /\ pc = [t \in Threads |-> "idle"]
  /\ held = [t \in Threads |-> nullptr]
  /\ iter = [t \in Threads |-> 0]
  /\ ooms = [t \in Threads |-> -1]

CallerIdle ==
  /\ last = NoCall
  /\ prev = "other"
  /\ fresh = 0

\* ------------------------------------------------ one caller, any pointers
Init ==
  /\ pool \in ConstructedPools(PoolConfigs, 1..MaxBlocks)
  /\ args = <<pool.block_size_, pool.block_count_, pool.alignment_>>
  /\ status = "none"
  /\ live = {}
  /\ pre = [pool |-> pool, live |-> {}]
  /\ CallerIdle
  /\ ThreadsIdle

\* p = alloc.allocate();
CallAllocate ==
  LET r == allocate(pool)
  IN  /\ status = "none"
      /\ pool' = r.pool
      /\ pre' = [pool |-> pool, live |-> live]
      /\ last' = [op |-> "allocate", arg |-> nullptr, exc |-> r.exc,
                  ret |-> r.ret, what |-> "none"]
      /\ prev' = IF last.what = "released" THEN "released" ELSE "other"
      /\ live' = IF r.exc = "none" THEN live \cup {r.ret} ELSE live
      /\ fresh' = IF fresh >= 0 /\ fresh <= pool.block_count_ THEN fresh + 1 ELSE -1
      /\ UNCHANGED <<args, status, mtx, pc, held, iter, ooms>>

\* alloc.deallocate(p);
CallDeallocate(p) ==
  LET r == deallocate(pool, p)
  IN  /\ status = "none"
      /\ pool' = r.pool
      /\ pre' = [pool |-> pool, live |-> live]
      /\ last' = [op |-> "deallocate", arg |-> p, exc |-> r.exc,
                  ret |-> nullptr, what |-> r.what]
      /\ prev' = IF last.what = "released" THEN "released"
                 ELSE IF last.op = "allocate" /\ last.exc = "none" /\ last.ret = p
                   THEN "returned"
                 ELSE "other"
      /\ live' = IF r.what = "released" THEN live \ {p} ELSE live
      /\ fresh' = -1
      /\ UNCHANGED <<args, status, mtx, pc, held, iter, ooms>>

\* alloc.free_blocks();
CallFreeBlocks ==
  /\ status = "none"
  /\ last' = [op |-> "free_blocks", arg |-> nullptr, exc |-> "none",
              ret |-> free_blocks(pool), what |-> "none"]
  /\ pre' = [pool |-> pool, live |-> live]
  /\ prev' = "other"
  /\ UNCHANGED <<args, status, pool, mtx, live, fresh, pc, held, iter, ooms>>

\* std::memset(p, 0xCD, block_size) on a block the caller holds: the bytes
\* that held FreeNode::next while the slot was free are overwritten.
WritePayload(p) ==
  /\ status = "none"
  /\ p \in live
  /\ pool.next_[p] # PayloadWord
  /\ pool' = [pool EXCEPT !.next_ = [@ EXCEPT ![p] = PayloadWord]]
  /\ UNCHANGED <<args, status, mtx, live, last, pre, prev, fresh, pc, held, iter, ooms>>

\* The allocator goes out of scope: ~BlockAllocator().  Blocks still handed
\* out dangle; the object takes no further call.
Destroy ==
  /\ status = "none"
  /\ mtx = 0
  /\ pool' = BlockAllocator_dtor(pool)
  /\ status' = "destroyed"
  /\ pre' = [pool |-> pool, live |-> live]
  /\ last' = [op |-> "destructor", arg |-> nullptr, exc |-> "none",
              ret |-> nullptr, what |-> "none"]
  /\ prev' = "other"
  /\ UNCHANGED <<args, mtx, live, fresh, pc, held, iter, ooms>>

Next ==
  \/ CallAllocate
  \/ \E p \in PtrInputs(pool) : CallDeallocate(p)
  \/ CallFreeBlocks
  \/ \E p \in live : WritePayload(p)
  \/ Destroy

Spec == Init /\ [][Next]_vars

\* ------------------------------------------------------- stress threads
\* The thread body of the tests MultithreadedAllocFree and
\* StressWithContentionAndOOM: for (i = 0; i < iters; ++i) { p = allocate();
\* use the block; deallocate(p); }, bad_alloc caught and the loop continued.
\* Positions: "idle" (before a call of allocate), "alloc_cs" (inside allocate,
\* holding mtx_), "work" (holding a block), "dealloc" (before deallocate),
\* "dealloc_cs" (inside deallocate, holding mtx_), "done", and "terminated"
\* (an exception no handler catches left the thread function).
NextIteration(t) ==
  /\ iter' = [iter EXCEPT ![t] = @ + 1]
  /\ pc' = [pc EXCEPT ![t] = IF iter[t] + 1 < Iters THEN "idle" ELSE "done"]

\* Pools of the stress scenarios: 64-byte blocks aligned to 64, with fewer
\* blocks than threads and with as many.
StressPools == ConstructedPools({<<64, 64>>}, {NumThreads - 1, NumThreads})

InitThreads ==
  /\ pool \in StressPools
  /\ args = <<pool.block_size_, pool.block_count_, pool.alignment_>>
  /\ status = "none"
  /\ live = {}
  /\ pre = [pool |-> pool, live |-> {}]
  /\ CallerIdle
  /\ ThreadsIdle

\* A release of the lock that is skipped when the call throws.
unlock_skipped_on_throw(holder, exc) == IF exc = "none" THEN 0 ELSE holder

\* ~lock_guard as the call leaves its scope, by return or by exception: the
\* new value of mtx_.
lock_guard_release(holder, exc) == 0

\* A lock that is taken without waiting for its holder to release it.
AllocLock_no_wait(t) ==
  /\ status = "none"
  /\ pc[t] = "idle"
  /\ mtx' = t
  /\ pc' = [pc EXCEPT ![t] = "alloc_cs"]
  /\ UNCHANGED <<args, status, pool, live, last, pre, prev, fresh, held, iter, ooms>>

\* std::lock_guard<std::mutex> lock(mtx_) at the head of allocate.
AllocLock(t) ==
  /\ status = "none"
  /\ pc[t] = "idle"
  /\ mtx = 0
  /\ mtx' = t
  /\ pc' = [pc EXCEPT ![t] = "alloc_cs"]
  /\ UNCHANGED <<args, status, pool, live, last, pre, prev, fresh, held, iter, ooms>>

\* The body of allocate and the release of the lock as the call returns or
\* throws; a bad_alloc is caught by the thread, which goes on to its next
\* iteration.
AllocBody(t) ==
  /\ status = "none"
  /\ pc[t] = "alloc_cs"
  /\ mtx = t
  /\ LET r == allocate(pool)
     IN  /\ pool' = r.pool
         /\ mtx' = lock_guard_release(mtx, r.exc)
         /\ IF r.exc = "none"
              THEN /\ held' = [held EXCEPT ![t] = r.ret]
                   /\ live' = live \cup {r.ret}
                   /\ pc' = [pc EXCEPT ![t] = "work"]
                   /\ UNCHANGED <<iter, ooms>>
              ELSE /\ ooms' = [ooms EXCEPT ![t] = Cardinality(live)]
                   /\ NextIteration(t)
                   /\ UNCHANGED <<held, live>>
  /\ UNCHANGED <<args, status, last, pre, prev, fresh>>

\* allocations.fetch_add(1); sleep_for(10us): the thread holds its block and
\* writes nothing into it.
Work(t) ==
  /\ status = "none"
  /\ pc[t] = "work"
  /\ pc' = [pc EXCEPT ![t] = "dealloc"]
  /\ UNCHANGED <<args, status, pool, mtx, live, last, pre, prev, fresh, held, iter, ooms>>

\* std::lock_guard<std::mutex> lock(mtx_) in deallocate (p is not null).
DeallocLock(t) ==
  /\ status = "none"
  /\ pc[t] = "dealloc"
  /\ mtx = 0
  /\ mtx' = t
  /\ pc' = [pc EXCEPT ![t] = "dealloc_cs"]
  /\ UNCHANGED <<args, status, pool, live, last, pre, prev, fresh, held, iter, ooms>>

\* The body of deallocate and the release of the lock.  A runtime_error has
\* no handler in the thread function: std::terminate is called without
\* unwinding, mtx_ still locked, and the process is aborted.
DeallocBody(t) ==
  /\ status = "none"
  /\ pc[t] = "dealloc_cs"
  /\ mtx = t
  /\ LET r == deallocate(pool, held[t])
     IN  /\ pool' = r.pool
         /\ IF r.exc = "none"
              THEN /\ mtx' = lock_guard_release(mtx, r.exc)
                   /\ live' = live \ {held[t]}
                   /\ NextIteration(t)
                   /\ UNCHANGED status
              ELSE /\ mtx' = mtx
                   /\ pc' = [pc EXCEPT ![t] = "terminated"]
                   /\ status' = "terminate"
                   /\ UNCHANGED <<live, iter>>
  /\ UNCHANGED <<args, last, pre, prev, fresh, held, ooms>>

\* EXPECT_EQ(alloc.free_blocks(), blocks) after every thread was joined.
AllJoined == \A t \in Threads : pc[t] = "done"

JoinedFreeBlocks ==
  /\ status = "none"
  /\ AllJoined
  /\ last.op # "free_blocks"
  /\ last' = [op |-> "free_blocks", arg |-> nullptr, exc |-> "none",
              ret |-> free_blocks(pool), what |-> "none"]
  /\ UNCHANGED <<args, status, pool, mtx, live, pre, prev, fresh, pc, held, iter, ooms>>

\* The closing brace of the test: the allocator is destroyed after the
\* threads were joined and the count was compared.
JoinedDestroy ==
  /\ AllJoined
  /\ last.op = "free_blocks"
  /\ Destroy

NextThreads ==
  \/ \E t \in Threads : AllocLock(t)
  \/ \E t \in Threads : AllocBody(t)
  \/ \E t \in Threads : Work(t)
  \/ \E t \in Threads : DeallocLock(t)
  \/ \E t \in Threads : DeallocBody(t)
  \/ JoinedFreeBlocks
  \/ JoinedDestroy

SpecThreads == InitThreads /\ [][NextThreads]_vars

\* ------------------------------------------- stress threads and an observer
\* The stress threads, and beside them a thread that calls free_blocks() over
\* and over while they run.  mtx = Observer while it is inside free_blocks().
Observer == NumThreads + 1

\* std::lock_guard<std::mutex> lock(mtx_) in free_blocks.
FreeBlocksLock ==
  /\ status = "none"
  /\ mtx = 0
  /\ mtx' = Observer
  /\ UNCHANGED <<args, status, pool, live, last, pre, prev, fresh, pc, held, iter, ooms>>

\* return free_count_; and the release of the lock.
FreeBlocksBody ==
  /\ status = "none"
  /\ mtx = Observer
  /\ last' = [op |-> "free_blocks", arg |-> nullptr, exc |-> "none",
              ret |-> free_blocks(pool), what |-> "none"]
  /\ mtx' = lock_guard_release(mtx, "none")
  /\ UNCHANGED <<args, status, pool, live, pre, prev, fresh, pc, held, iter, ooms>>

\* The allocator is destroyed once every thread was joined and no call is
\* under way.
ObservedDestroy ==
  /\ AllJoined
  /\ Destroy

NextObserved ==
  \/ \E t \in Threads : AllocLock(t)
  \/ \E t \in Threads : AllocBody(t)
  \/ \E t \in Threads : Work(t)
  \/ \E t \in Threads : DeallocLock(t)
  \/ \E t \in Threads : DeallocBody(t)
  \/ FreeBlocksLock
  \/ FreeBlocksBody
  \/ ObservedDestroy

\* A fair mutex: a call that waits for mtx_ while it is free again and again
\* gets it; a thread inside a call runs on to the end of the call.  Nothing is
\* assumed of a thread between its calls: it may keep its block for ever.
FairLock ==
  /\ \A t \in Threads : SF_vars(AllocLock(t)) /\ SF_vars(DeallocLock(t))
  /\ \A t \in Threads : WF_vars(AllocBody(t)) /\ WF_vars(DeallocBody(t))
  /\ SF_vars(FreeBlocksLock)
  /\ WF_vars(FreeBlocksBody)

SpecFair == InitThreads /\ [][NextObserved]_vars /\ FairLock

\* ------------------------------------------------------------ construction
\* Arguments the constructor is called with: sizes around the node size, the
\* alignment and the top of the size range; counts from 0 up, and counts no
\* occupancy table can hold; alignments that are zero, below alignof(void *),
\* not powers of two, and valid.
BlockSizeInputs ==
  {0, 1, 8, 9, 24, 64, SizeMod \div 4,
   SizeMax - 64, SizeMax - 62, SizeMax - 7, SizeMax - 6, SizeMax}

BlockCountInputs ==
  (0..(MaxBlocks + 2)) \cup {SizeMod \div 4, VectorMaxSize, SizeMod \div 2, SizeMax}

AlignmentInputs == {0, 1, 4, 8, 12, 16, 64, SizeMod \div 2}

InitCtor ==
  /\ args \in BlockSizeInputs \X BlockCountInputs \X AlignmentInputs
  /\ status = "unconstructed"
  /\ pool = NoPool
  /\ live = {}
  /\ pre = [pool |-> NoPool, live |-> {}]
  /\ CallerIdle
  /\ ThreadsIdle

\* mem::BlockAllocator alloc(block_size, block_count, alignment);
Construct ==
  /\ status = "unconstructed"
  /\ \E table \in TableResults(args[2]) :
     \E p \in MemalignResults(args[3],
                 (round_up(Max(args[1], SizeofFreeNode), args[3]) * args[2]) % SizeMod) :
       LET r == BlockAllocator(args[1], args[2], args[3], table, p)
       IN  /\ status' = r.exc
           /\ pool' = r.pool
  /\ UNCHANGED <<args, mtx, live, last, pre, prev, fresh, pc, held, iter, ooms>>

\* alloc.allocate() on the pool just constructed; the calls that follow a
\* construction are followed up to the second one past block_count.
CtorAllocate ==
  /\ status = "none"
  /\ fresh >= 0
  /\ pool.stride_ # 0 \/ pool.free_list_ = nullptr
  /\ CallAllocate

\* alloc.allocate() on a constructed pool whose stride_ is 0.  A SIGFPE is
\* raised inside the critical section: the lock_guard is never destroyed
\* and mtx_ stays locked by the caller.
CtorAllocateZeroStride ==
  /\ status = "none"
  /\ fresh >= 0
  /\ pool.stride_ = 0 /\ pool.free_list_ # nullptr
  /\ \E q \in ZeroDivisionOutcomes :
       LET r == allocate_zero_stride(pool, q)
       IN  /\ pool' = r.pool
           /\ pre' = [pool |-> pool, live |-> live]
           /\ last' = [op |-> "allocate", arg |-> nullptr, exc |-> r.exc,
                       ret |-> r.ret, what |-> "none"]
           /\ status' = IF r.exc = "SIGFPE" THEN "SIGFPE" ELSE status
           /\ mtx' = IF r.exc = "SIGFPE" THEN Caller ELSE mtx
           /\ live' = IF r.exc = "none" THEN live \cup {r.ret} ELSE live
  /\ prev' = "other"
  /\ fresh' = IF fresh <= pool.block_count_ THEN fresh + 1 ELSE -1
  /\ UNCHANGED <<args, pc, held, iter, ooms>>

NextCtor ==
  \/ Construct
  \/ CtorAllocate
  \/ CtorAllocateZeroStride
  \/ Destroy

SpecCtor == InitCtor /\ [][NextCtor]_vars

\* ----------------------------------------------------- notions of the claims
\* p is the start address of one of the pool's slots.
IsSlotStart(a, p) == \E i \in Slots(a) : p = a.region_ + i * a.stride_

\* The nodes met from node on by following next links, at most n of them.
RECURSIVE Walk(_, _, _)
Walk(a, node, n) ==
  IF node = nullptr \/ n = 0 \/ node \notin DOMAIN a.next_ THEN {}
  ELSE {node} \cup Walk(a, a.next_[node], n - 1)

\* The addresses on the free-list.
FreeListNodes(a) == Walk(a, a.free_list_, a.block_count_)

\* The number of nodes between node and the end of the list, or -1 when the
\* end is not met within n links (the list runs into itself or off the slots).
RECURSIVE ListLength(_, _, _)
ListLength(a, node, n) ==
  IF node = nullptr THEN 0
  ELSE IF n = 0 \/ node \notin DOMAIN a.next_ THEN -1
  ELSE LET rest == ListLength(a, a.next_[node], n - 1)
       IN  IF rest = -1 THEN -1 ELSE rest + 1

\* The start addresses of the pool's slots.
SlotStarts(a) == {SlotAddr(a.region_, a.stride_, i) : i \in Slots(a)}

\* The free-list of a ends (no cycle), holds every slot that is not handed
\* out once and no slot that is, and is free_count_ long.
FreeListInvariant(a, handed) ==
  /\ ListLength(a, a.free_list_, a.block_count_) # -1
  /\ ListLength(a, a.free_list_, a.block_count_) = Cardinality(FreeListNodes(a))
  /\ FreeListNodes(a) = SlotStarts(a) \ handed
  /\ Cardinality(SlotStarts(a) \ handed) = a.block_count_ - Cardinality(handed)
  /\ ListLength(a, a.free_list_, a.block_count_) = a.free_count_

\* Every flag of the occupancy table is 0 or 1, and it is 1 exactly for the
\* slots that are not met from the free-list head.
OccupancyInvariant(a) ==
  \A i \in Slots(a) :
    /\ a.occupancy_[i] \in {0, 1}
    /\ a.occupancy_[i] = 1 <=> SlotAddr(a.region_, a.stride_, i) \notin FreeListNodes(a)

\* x is 2^k for some k.
IsPow2(x) == \E k \in 0..SizeBits : x = 2 ^ k

\* round_up(max(block_size, sizeof(FreeNode)), alignment) in exact arithmetic.
ExactStride(block_size, alignment) ==
  ((Max(block_size, SizeofFreeNode) + alignment - 1) \div alignment) * alignment

\* ------------------------------------------------------------------ claims
\* C1 (Spec): on a pool of N blocks the first N allocate() calls made before
\* any deallocate all succeed, the (N+1)-th throws bad_alloc, and an
\* allocate() that directly follows a deallocate that released a block
\* succeeds.
C1_Exhaustion ==
  last.op = "allocate" =>
    /\ fresh \in 1..pool.block_count_ => last.exc = "none"
    /\ fresh = pool.block_count_ + 1 => last.exc = "bad_alloc"
    /\ prev = "released" => last.exc = "none"

C1_Witness ==
  /\ last.op = "allocate"
  /\ fresh = pool.block_count_ + 1
  /\ pool.block_count_ = MaxBlocks
  /\ last.exc = "bad_alloc"

\* C2 (Spec): deallocate(p) of a slot start whose block is not handed out
\* (released before, or never allocated) throws runtime_error and leaves
\* free_blocks() as it was.
C2_DoubleFreeRejected ==
  (/\ last.op = "deallocate"
   /\ IsSlotStart(pre.pool, last.arg)
   /\ last.arg \notin pre.live)
  => /\ last.exc = "runtime_error"
     /\ free_blocks(pool) = free_blocks(pre.pool)

C2_Witness ==
  /\ last.op = "deallocate"
  /\ prev = "released"
  /\ last.arg = pre.pool.free_list_
  /\ last.arg \notin pre.live
  /\ last.exc = "runtime_error"
  /\ free_blocks(pool) = free_blocks(pre.pool)

\* C3 (Spec): deallocate(p) of a non-null address outside the region, or
\* inside it but off the stride boundaries (also inside a block that is
\* handed out), throws runtime_error and leaves free_blocks() as it was.
C3_ForeignPointerRejected ==
  (/\ last.op = "deallocate"
   /\ last.arg # nullptr
   /\ \/ last.arg < pre.pool.region_
      \/ last.arg >= pre.pool.region_ + pre.pool.stride_ * pre.pool.block_count_
      \/ (last.arg - pre.pool.region_) % pre.pool.stride_ # 0)
  => /\ last.exc = "runtime_error"
     /\ free_blocks(pool) = free_blocks(pre.pool)

C3_Witness ==
  /\ last.op = "deallocate"
  /\ \E q \in pre.live : last.arg = q + 8
  /\ last.exc = "runtime_error"
  /\ free_blocks(pool) = free_blocks(pre.pool)

\* C4 (Spec): a call that ended in an exception left the free-list head, the
\* next link of every node on the free-list, the occupancy table and the free
\* count as they were when the call began.
C4_StrongErrorSafety ==
  last.exc # "none" =>
    /\ pool.free_list_ = pre.pool.free_list_
    /\ FreeListNodes(pool) = FreeListNodes(pre.pool)
    /\ \A n \in FreeListNodes(pre.pool) : pool.next_[n] = pre.pool.next_[n]
    /\ pool.occupancy_ = pre.pool.occupancy_
    /\ pool.free_count_ = pre.pool.free_count_

C4_Witness ==
  /\ last.op = "deallocate"
  /\ last.what = "double_free"
  /\ pre.live # {}
  /\ FreeListNodes(pre.pool) # {}
  /\ pool.free_list_ = pre.pool.free_list_
  /\ pool.occupancy_ = pre.pool.occupancy_

\* C5 (SpecThreads): once every thread has finished its loop, free_blocks()
\* returns block_count, also when there are more threads than blocks and
\* allocate() calls failed.
C5_StressRestoresCount ==
  /\ (AllJoined /\ status = "none") => free_blocks(pool) = pool.block_count_
  /\ last.op = "free_blocks" => last.ret = pool.block_count_

C5_Witness ==
  /\ last.op = "free_blocks"
  /\ last.ret = pool.block_count_
  /\ NumThreads > pool.block_count_
  /\ \E t \in Threads : ooms[t] # -1

\* C6 (Spec): on the living allocator free_blocks() is block_count minus the number of blocks handed
\* out and lies in 0..block_count; an allocate() that returned a block
\* lowered it by one, a deallocate() that released a block raised it by one.
C6_Conservation ==
  status = "none" =>
    /\ free_blocks(pool) = pool.block_count_ - Cardinality(live)
    /\ free_blocks(pool) \in 0..pool.block_count_
    /\ (last.op = "allocate" /\ last.exc = "none")
         => free_blocks(pool) = free_blocks(pre.pool) - 1
    /\ (last.op = "deallocate" /\ last.what = "released")
         => free_blocks(pool) = free_blocks(pre.pool) + 1

C6_Witness ==
  /\ last.op = "deallocate"
  /\ last.what = "released"
  /\ Cardinality(live) = 1
  /\ pool.block_count_ = MaxBlocks
  /\ free_blocks(pool) = MaxBlocks - 1

\* C7 (SpecThreads): with no more threads than blocks, each holding at most
\* one block, no allocate() throws; whenever an allocate() threw, every block
\* of the pool was handed out at that moment.
C7_FailsOnlyWhenExhausted ==
  /\ NumThreads <= pool.block_count_ => \A t \in Threads : ooms[t] = -1
  /\ \A t \in Threads : ooms[t] # -1 => ooms[t] = pool.block_count_

C7_Witness ==
  /\ NumThreads <= pool.block_count_
  /\ AllJoined
  /\ \A t \in Threads : ooms[t] = -1 /\ iter[t] = Iters

\* C8 (SpecCtor): every address allocate() returns is a multiple of the
\* pool's alignment, for every configuration the constructor accepts, the
\* region base being a multiple of the alignment.
C8_Alignment ==
  (status = "none" /\ last.op = "allocate" /\ last.exc = "none")
    => last.ret % pool.alignment_ = 0

C8_Witness ==
  /\ status = "none"
  /\ last.op = "allocate"
  /\ last.exc = "none"
  /\ pool.block_size_ = 24
  /\ pool.alignment_ = 64
  /\ last.ret # pool.region_
  /\ last.ret % 64 = 0

\* The configurations the constructor is to reject: block_size 0,
\* block_count 0, an alignment that is no power of two or is below
\* alignof(void *), or stride * block_count beyond the size type.
InvalidConfiguration(block_size, block_count, alignment) ==
  \/ block_size = 0
  \/ block_count = 0
  \/ ~IsPow2(alignment)
  \/ alignment < AlignofVoidPtr
  \/ ExactStride(block_size, alignment) > SizeMax \div block_count

\* C9 (SpecCtor): a construction with an invalid configuration ends in
\* invalid_argument (or, memory running out on a request that could have
\* been granted, in bad_alloc) and leaves no pool; any other construction
\* returns a pool or, memory not obtained, ends in bad_alloc and leaves no
\* pool.
C9_InvalidConfigurationRejected ==
  status # "unconstructed" =>
    IF InvalidConfiguration(args[1], args[2], args[3])
      THEN /\ \/ status = "invalid_argument"
              \/ status = "bad_alloc" /\ "ok" \in TableResults(args[2])
           /\ pool = NoPool
      ELSE /\ status \in {"none", "bad_alloc", "SIGFPE", "destroyed"}
           /\ status = "bad_alloc" => pool = NoPool

\* C10 (SpecCtor): right after a construction that returned, free_blocks() is
\* block_count, the start of every slot 0..block_count-1 is on the free-list,
\* and every occupancy flag is 0.
C10_CapacityAfterConstruction ==
  (status = "none" /\ last = NoCall) =>
    /\ free_blocks(pool) = args[2]
    /\ \A i \in 0..(args[2] - 1) :
         pool.region_ + i * pool.stride_ \in FreeListNodes(pool)
    /\ DOMAIN pool.occupancy_ = 0..(args[2] - 1)
    /\ \A i \in 0..(args[2] - 1) : pool.occupancy_[i] = 0

C10_Witness ==
  /\ status = "none"
  /\ last = NoCall
  /\ args[2] = MaxBlocks
  /\ Cardinality(FreeListNodes(pool)) = MaxBlocks
  /\ free_blocks(pool) = MaxBlocks

\* C11 (SpecFair): under a fair lock every call returns: a thread that called
\* allocate() or deallocate() enters it and leaves it, free_blocks() is
\* entered and left again and again for as long as the allocator lives,
\* whatever the other threads do; an
\* allocate() on an exhausted pool leaves with bad_alloc in its one step, the
\* lock released, without waiting for a block.
C11_NoOperationBlocks ==
  /\ \A t \in Threads : (pc[t] = "idle") ~> (pc[t] = "alloc_cs")
  /\ \A t \in Threads : (pc[t] = "alloc_cs") ~> (pc[t] # "alloc_cs")
  /\ \A t \in Threads : (pc[t] = "dealloc") ~> (pc[t] = "dealloc_cs")
  /\ \A t \in Threads : (pc[t] = "dealloc_cs") ~> (pc[t] # "dealloc_cs")
  /\ []<>(mtx = Observer \/ status = "destroyed")
  /\ (mtx = Observer) ~> (mtx # Observer)
  /\ [][\A t \in Threads :
          (pc[t] = "alloc_cs" /\ pool.free_list_ = nullptr /\ pc'[t] # "alloc_cs")
            => (ooms'[t] = Cardinality(live) /\ mtx' # t /\ pool' = pool)]_vars

C11_Witness ==
  \E t \in Threads : \E u \in Threads \ {t} :
    /\ ooms[t] = pool.block_count_
    /\ iter[t] > 0
    /\ pc[u] = "work"
    /\ mtx = 0

\* C12 (Spec): deallocate(nullptr) throws nothing in any pool state (full,
\* partly handed out, exhausted) and leaves the free-list head and links, the
\* occupancy table, the free count and the blocks handed out as they were.
C12_NullIsNoOp ==
  (last.op = "deallocate" /\ last.arg = nullptr) =>
    /\ last.exc = "none"
    /\ last.what = "null"
    /\ pool.free_list_ = pre.pool.free_list_
    /\ \A n \in FreeListNodes(pre.pool) : pool.next_[n] = pre.pool.next_[n]
    /\ pool.occupancy_ = pre.pool.occupancy_
    /\ pool.free_count_ = pre.pool.free_count_
    /\ live = pre.live

C12_Witness ==
  /\ last.op = "deallocate"
  /\ last.arg = nullptr
  /\ last.exc = "none"
  /\ pool.free_count_ = 0
  /\ pool.free_list_ = nullptr
  /\ Cardinality(live) = MaxBlocks

\* C13: between operations (the lock not held) the free-list of a constructed
\* pool is acyclic, holds each free slot exactly once and no allocated slot,
\* and its length is the free count.
C13_FreeListInvariant ==
  (status = "none" /\ mtx = 0) => FreeListInvariant(pool, live)

\* C14 (Spec): between operations every occupancy flag of the pool is 0 or 1,
\* and the flag of slot i is 1 exactly when slot i is not reachable from the
\* free-list head.
C14_OccupancyInvariant ==
  (status = "none" /\ mtx = 0) => OccupancyInvariant(pool)

C14_Witness ==
  /\ last.what = "released"
  /\ prev = "released"
  /\ pool.block_count_ = MaxBlocks
  /\ \E i \in Slots(pool) : pool.occupancy_[i] = 1
  /\ \E i \in Slots(pool) : pool.occupancy_[i] = 0
  /\ OccupancyInvariant(pool)

\* C15: on every pool whose construction succeeded, block_size drawn from the
\* whole range of size_t, stride is round_up(max(block_size, sizeof(FreeNode)),
\* alignment) computed modulo 2^SizeBits, stride >= block_size, and stride is
\* a multiple of alignment.
C15_StrideInvariant ==
  status = "none" =>
    /\ pool.stride_ = round_up(Max(args[1], SizeofFreeNode), args[3])
    /\ pool.stride_ >= args[1]
    /\ pool.stride_ % args[3] = 0

\* The threads inside the section guarded by mtx_.
InSection ==
  {t \in Threads : pc[t] \in {"alloc_cs", "dealloc_cs"}}
    \cup (IF mtx = Observer THEN {Observer} ELSE {})

\* C16 (SpecFair): at most one thread is inside allocate(), deallocate() of a
\* non-null pointer or free_blocks() at a time, and it is the holder of the
\* lock; every change of the free-list head, the occupancy table or the free
\* count is one whole allocate or deallocate of the lock holder applied to
\* the pool as the previous call left it, so the calls take effect in one
\* sequential order; the destructor runs with nobody inside.
C16_Serialization ==
  /\ [](Cardinality(InSection) <= 1 /\ \A t \in InSection : mtx = t)
  /\ [](status = "destroyed" => InSection = {})
  /\ [][(/\ status' = "none"
         /\ \/ pool'.free_list_ # pool.free_list_
            \/ pool'.occupancy_ # pool.occupancy_
            \/ pool'.free_count_ # pool.free_count_)
        => \E t \in Threads :
             /\ mtx = t
             /\ InSection = {t}
             /\ \/ pc[t] = "alloc_cs" /\ pool' = allocate(pool).pool
                \/ pc[t] = "dealloc_cs" /\ pool' = deallocate(pool, held[t]).pool]_vars

C16_Witness ==
  \E t \in Threads : \E u \in Threads \ {t} :
    /\ pc[t] = "dealloc_cs"
    /\ mtx = t
    /\ pc[u] = "idle"
    /\ iter[u] > 0
    /\ pool.free_list_ = nullptr

\* C17 (Spec): with no deallocate since construction, the k-th allocate()
\* (1 <= k <= block_count) returns the slot of index block_count - k; the
\* first returns the last-indexed slot.
C17_InitialOrder ==
  (last.op = "allocate" /\ fresh \in 1..pool.block_count_) =>
    /\ last.exc = "none"
    /\ last.ret = SlotAddr(pool.region_, pool.stride_, pool.block_count_ - fresh)
    /\ index_from_ptr_unlocked(pool, last.ret).idx = pool.block_count_ - fresh

C17_Witness ==
  /\ last.op = "allocate"
  /\ pool.block_count_ = MaxBlocks
  /\ fresh = 1
  /\ last.ret = SlotAddr(pool.region_, pool.stride_, MaxBlocks - 1)
  /\ last.ret # pool.region_

\* C18 (Spec): on the living allocator allocate() never returns an address
\* that was handed out and not yet released when the call began; in every
\* state the blocks handed out
\* are as many distinct addresses as there are allocations outstanding
\* (block_count - free_count), each inside the region at a multiple of stride
\* from its start, and never more than block_count.
C18_NoDoubleHandOut ==
  status = "none" =>
    /\ (last.op = "allocate" /\ last.exc = "none") => last.ret \notin pre.live
    /\ \A p \in live :
         /\ p >= pool.region_
         /\ p < pool.region_ + pool.stride_ * pool.block_count_
         /\ (p - pool.region_) % pool.stride_ = 0
    /\ Cardinality(live) = pool.block_count_ - pool.free_count_
    /\ Cardinality(live) <= pool.block_count_

C18_Witness ==
  /\ last.op = "allocate"
  /\ last.exc = "none"
  /\ prev = "released"
  /\ pool.block_count_ = MaxBlocks
  /\ Cardinality(live) = MaxBlocks
  /\ Cardinality(pre.live) = MaxBlocks - 1
  /\ fresh = -1

\* C19 (Spec): a successful allocate() directly followed by deallocate() of
\* the address it returned succeeds and leaves the free-list head, the order
\* of the nodes on the list (every next link), the occupancy table, the free
\* count and the blocks handed out as they were before the allocate, also
\* when the caller wrote into the block in between.
C19_RoundTrip ==
  [][(/\ last.op = "allocate"
      /\ last.exc = "none"
      /\ last'.op = "deallocate"
      /\ last'.arg = last.ret)
     => /\ last'.exc = "none"
        /\ pool'.free_list_ = pre.pool.free_list_
        /\ FreeListNodes(pool') = FreeListNodes(pre.pool)
        /\ \A n \in FreeListNodes(pre.pool) : pool'.next_[n] = pre.pool.next_[n]
        /\ pool'.occupancy_ = pre.pool.occupancy_
        /\ pool'.free_count_ = pre.pool.free_count_
        /\ live' = pre.live]_vars

C19_Witness ==
  /\ last.op = "deallocate"
  /\ prev = "returned"
  /\ last.what = "released"
  /\ pool.free_list_ = last.arg
  /\ pool.next_[last.arg] # nullptr
  /\ pre.pool.next_[last.arg] = PayloadWord
  /\ live # {}

\* C20 (Spec): an allocate() that directly follows a deallocate(p) that
\* released p succeeds and returns p.
C20_LifoReuse ==
  [][(last.what = "released" /\ last'.op = "allocate")
     => (last'.exc = "none" /\ last'.ret = last.arg)]_vars

C20_Witness ==
  /\ last.op = "allocate"
  /\ prev = "released"
  /\ last.exc = "none"
  /\ last.ret = pre.pool.free_list_
  /\ pre.pool.next_[last.ret] # nullptr
  /\ last.ret # SlotAddr(pool.region_, pool.stride_, pool.block_count_ - 1)
  /\ pool.block_count_ = MaxBlocks

====
